---- MODULE Spec2Model ----
(***************************************************************************)
(* Model of .github/actions/validate-workflow-pinning/validate.py: the     *)
(* validator that checks that every 'uses:' reference of a workflow or    *)
(* composite action is pinned to a 40-character commit SHA.                *)
(*                                                                         *)
(* Three specifications share the variables:                               *)
(*   Spec        one run of main() / validate_workflow_files()             *)
(*   SpecPin     SHA_PATTERN.match applied to one reference string         *)
(*   SpecExtract the step walk of get_uses_statements on one document      *)
(*                                                                         *)
(* A reference string is a sequence of one-character strings.  A path is a *)
(* sequence of segments; a segment is a piece of text without whitespace   *)
(* (".github/workflows/", "ci", ".yml") and " " is the only whitespace, so *)
(* splitting a sequence of segments at " " is str.split() on the text.     *)
(***************************************************************************)
EXTENDS Integers, Sequences, FiniteSets, TLC

VARIABLES env, fs, pc, changed_files, allow_unpinned, fail_on_error,
          file_idx, uses_statements, uses_idx, fail, output, exit_code,
          visited, arg, result

vars == <<env, fs, pc, changed_files, allow_unpinned, fail_on_error,
          file_idx, uses_statements, uses_idx, fail, output, exit_code,
          visited, arg, result>>

runVars == <<env, fs, changed_files, allow_unpinned, fail_on_error,
             file_idx, uses_statements, uses_idx, fail, output, exit_code,
             visited>>

\* ---------------------------------------------------------------- bounds
MaxPrefix == 2     \* longest text in front of the '@' in SpecPin
HexSlack  == 1     \* hex runs of ShaLen-HexSlack .. ShaLen+HexSlack characters
MaxListed == 2     \* most paths listed in ALL_CHANGED_FILES in Spec
MaxSteps  == 2     \* longest 'steps' list of a document in SpecExtract
MaxJobs   == 2     \* most jobs of a document in SpecExtract

\* ------------------------------------------------------- sequence helpers
Rep(c, n) == [i \in 1..n |-> c]

Range(q) == {q[i] : i \in 1..Len(q)}

SeqsUpTo(S, n) == UNION {[1..k -> S] : k \in 0..n}

\* ------------------------------------------------------------ SHA_PATTERN
\* the {40} of the pattern
ShaLen == 40

\* the class [a-f0-9]
HexChars == {"a", "b", "c", "d", "e", "f",
             "0", "1", "2", "3", "4", "5", "6", "7", "8", "9"}

\* '.' of a pattern compiled without DOTALL: any character but the newline
Dot(c) == c # "\n"

\* '$' of a pattern compiled without MULTILINE, tried at the position after
\* the first k characters of s: the end of the string, or just before a
\* newline that is the last character of the string
AtDollar(s, k) == \/ k = Len(s)
                  \/ k = Len(s) - 1 /\ s[Len(s)] = "\n"

\* (mutant: the pattern without its trailing '$')
SHA_PATTERN_match_unanchored(s) ==
    \E i \in 1..Len(s) :
        /\ \A j \in 1..i : Dot(s[j])
        /\ i + 1 + ShaLen <= Len(s)
        /\ s[i + 1] = "@"
        /\ \A j \in (i + 2)..(i + 1 + ShaLen) : s[j] \in HexChars

\* SHA_PATTERN.match(s) for r".+@[a-f0-9]{40}$": the match is anchored at the
\* start of s; '.+' takes the first i characters (i >= 1, backtracking tries
\* every i), then '@', then ShaLen characters of the class, then '$'.
SHA_PATTERN_match(s) ==
    \E i \in 1..Len(s) :
        /\ \A j \in 1..i : Dot(s[j])
        /\ i + 1 + ShaLen <= Len(s)
        /\ s[i + 1] = "@"
        /\ \A j \in (i + 2)..(i + 1 + ShaLen) : s[j] \in HexChars
        /\ AtDollar(s, i + 1 + ShaLen)

\* ------------------------------------------------------- SpecPin: inputs
PinPrefixes == SeqsUpTo({"x", "@", "\n"}, MaxPrefix)

PinRunLens == (ShaLen - HexSlack)..(ShaLen + HexSlack)

\* a run of n 'a' with at most one character replaced near either end
PinRuns == UNION {
    {Rep("a", n)} \cup
    {[Rep("a", n) EXCEPT ![k] = c] : k \in {1, 2, n - 1, n},
                                    c \in {"A", "g", "0", "@"}}
    : n \in PinRunLens}

PinSuffixes == {<<>>, <<"\n">>, <<"\n", "\n">>, <<"x">>}

PinInputs == {p \o <<"@">> \o r \o t :
                 p \in PinPrefixes, r \in PinRuns, t \in PinSuffixes}

Idle == /\ env = <<>> /\ fs = <<>> /\ changed_files = <<>>
        /\ allow_unpinned = <<>> /\ fail_on_error = FALSE
        /\ file_idx = 0 /\ uses_statements = <<>> /\ uses_idx = 0
        /\ fail = FALSE /\ output = <<>> /\ exit_code = -1
        /\ visited = <<>>

InitPin == /\ Idle
           /\ pc = "pin_input"
           /\ arg \in PinInputs
           /\ result = FALSE

\* line 111: SHA_PATTERN.match(uses_value)
ApplyPin == /\ pc = "pin_input"
            /\ result' = SHA_PATTERN_match(arg)
            /\ pc' = "pin_done"
            /\ UNCHANGED <<arg, runVars>>

NextPin == ApplyPin

SpecPin == InitPin /\ [][NextPin]_vars

\* ------------------------------------------------------ parsed documents
\* Reference strings used in documents.
RefTag    == <<"x", "@", "v", "4">>            \* a tag: not pinned
RefPinned == <<"x", "@">> \o Rep("a", ShaLen)  \* pinned to a commit SHA
RefBranch == <<"y", "@", "m">>                 \* a branch: not pinned
RefLocal  == <<".", "/", "l">>                 \* path of a local action
RefDirPin == <<"d", "@">> \o Rep("0", ShaLen)  \* a directory named like a pin
RefEmpty  == <<>>                              \* uses: ""

\* A step is a mapping; has_uses: the key 'uses' is present; uses: its value;
\* lc_uses: 'uses' is a key of step.lc.data; lc_line: the 0-based line there.
StepOf(u, known, line) ==
    [has_uses |-> TRUE, uses |-> u, lc_uses |-> known, lc_line |-> line]

StepRun == [has_uses |-> FALSE, uses |-> <<>>, lc_uses |-> FALSE, lc_line |-> 0]

\* A step container (the 'runs' value or one job): has_steps: the key 'steps'
\* is present.
ContainerOf(steps) == [has_steps |-> TRUE, steps |-> steps]

NoSteps == [has_steps |-> FALSE, steps |-> <<>>]

\* A parsed document: keys: the keys of the root mapping (empty for an empty
\* document, for which yaml.load gives None); jobs: the values of 'jobs' in
\* source order; runs: the value of 'runs'.
DocOf(keys, jobs, runs) == [keys |-> keys, jobs |-> jobs, runs |-> runs]

\* --------------------------------------------------- get_uses_statements
\* step.get("uses"): None when the key is absent; None and "" are falsy
StepGetUses(step) == IF step.has_uses THEN step.uses ELSE <<>>

\* (mutant: the 0-based index of ruamel.yaml is not converted)
LineNumZeroBased(step) == IF step.lc_uses THEN step.lc_line ELSE 0

\* lines 62-65: line_num
LineNum(step) == IF step.lc_uses THEN step.lc_line + 1 ELSE 0

\* lines 58-66: the loop over one container's steps, appending to acc
RECURSIVE StepsLoop(_, _, _)
StepsLoop(steps, k, acc) ==
    IF k > Len(steps) THEN acc
    ELSE StepsLoop(steps, k + 1,
                   IF StepGetUses(steps[k]) # <<>>
                   THEN Append(acc, <<steps[k].uses, LineNum(steps[k])>>)
                   ELSE acc)

\* line 58: step_data.get("steps", [])
GetSteps(step_data) == IF step_data.has_steps THEN step_data.steps ELSE <<>>

\* lines 57-66: the loop over the step containers
RECURSIVE ContainersLoop(_, _, _)
ContainersLoop(step_operations, k, acc) ==
    IF k > Len(step_operations) THEN acc
    ELSE ContainersLoop(step_operations, k + 1,
                        StepsLoop(GetSteps(step_operations[k]), 1, acc))

\* lines 54-56: step_operations
StepOperations(content) ==
    IF "runs" \in content.keys THEN <<content.runs>> ELSE content.jobs

\* (mutant: the schema test is dropped)
UnsupportedNever(content) == FALSE

\* line 48: not content or {"jobs", "runs"}.intersection(content.keys()) == set()
Unsupported(content) ==
    \/ content.keys = {}
    \/ {"jobs", "runs"} \cap content.keys = {}

\* lines 47-68 of get_uses_statements, for a file that loaded as content
UsesOf(content) ==
    IF Unsupported(content) THEN <<>>
    ELSE ContainersLoop(StepOperations(content), 1, <<>>)

\* ---------------------------------------------------- SpecExtract: inputs
ExtSteps == {StepRun,
             StepOf(RefEmpty, TRUE, 2),
             StepOf(RefTag, TRUE, 4),
             StepOf(RefPinned, FALSE, 0)}

\* a container with a 'steps' list of up to MaxSteps steps, or without one
ExtContainers == {NoSteps} \cup
                 {ContainerOf(q) : q \in SeqsUpTo(ExtSteps, MaxSteps)}

\* a job with at most one step, or without a 'steps' list
ExtJobs == {NoSteps} \cup {ContainerOf(q) : q \in SeqsUpTo(ExtSteps, 1)}

\* documents with 'jobs' only (up to MaxJobs short jobs, or one job of up to
\* MaxSteps steps), 'runs' only, both, and neither
ExtDocs ==
    {DocOf({"name", "jobs"}, j, NoSteps) : j \in SeqsUpTo(ExtJobs, MaxJobs)}
    \cup {DocOf({"jobs"}, <<c>>, NoSteps) : c \in ExtContainers}
    \cup {DocOf({"runs"}, <<>>, r) : r \in ExtContainers}
    \cup {DocOf({"jobs", "runs"}, j, r) :
             j \in SeqsUpTo(ExtJobs, 1), r \in ExtContainers}
    \cup {DocOf({}, <<>>, NoSteps)}
    \cup {DocOf({"name", "steps"}, j, r) :
             j \in SeqsUpTo(ExtJobs, 1), r \in ExtContainers}

InitExtract == /\ Idle
               /\ pc = "ext_input"
               /\ arg \in ExtDocs
               /\ result = <<>>

\* lines 47-68: get_uses_statements returns the list for the loaded document
ApplyExtract == /\ pc = "ext_input"
                /\ result' = UsesOf(arg)
                /\ pc' = "ext_done"
                /\ UNCHANGED <<arg, runVars>>

NextExtract == ApplyExtract

SpecExtract == InitExtract /\ [][NextExtract]_vars

\* ------------------------------------------------------------ environment
\* An environment variable is unset, or set to a text.
Unset == [set |-> FALSE, val |-> <<>>]

SetTo(v) == [set |-> TRUE, val |-> v]

\* os.environ.get(name, default)
EnvGet(e, name, default) == IF e[name].set THEN e[name].val ELSE default

\* str.split() without arguments: the maximal runs of non-whitespace of the
\* text, in order.  A word starts at a non-blank that is first or follows a
\* blank, and runs up to the last non-blank before the next blank.
WordStarts(text) ==
    {i \in 1..Len(text) : text[i] # " " /\ (i = 1 \/ text[i - 1] = " ")}

WordEnd(text, i) ==
    CHOOSE j \in i..Len(text) :
        /\ \A m \in i..j : text[m] # " "
        /\ j = Len(text) \/ text[j + 1] = " "

\* lines 144-145: [f.strip() for f in text.split() if f.strip()]; the words
\* of split() hold no whitespace, so strip() changes none and drops none
Split(text) ==
    LET starts == WordStarts(text)
        start(k) == CHOOSE i \in starts :
                        Cardinality({j \in starts : j < i}) = k - 1
    IN  [k \in 1..Cardinality(starts) |->
            SubSeq(text, start(k), WordEnd(text, start(k)))]

\* str.lower() on the letters that occur in the values of FAIL_ON_ERROR
LowerChar(c) ==
    CASE c = "T" -> "t" [] c = "R" -> "r" [] c = "U" -> "u" [] c = "E" -> "e"
      [] c = "Y" -> "y" [] c = "S" -> "s" [] c = "F" -> "f" [] c = "A" -> "a"
      [] c = "L" -> "l" [] OTHER -> c

Lower(text) == [i \in 1..Len(text) |-> LowerChar(text[i])]

\* line 146: fail_on_error_str.lower() in ("true", "1", "yes")
FailOnErrorOf(text) ==
    Lower(text) \in {<<"t", "r", "u", "e">>, <<"1">>, <<"y", "e", "s">>}

\* (mutant: the list is read from CHANGED_FILES)
ChangedFilesVarAlt == "CHANGED_FILES"

\* line 140: the variable that holds the list of changed files
ChangedFilesVar == "ALL_CHANGED_FILES"

\* ------------------------------------------------------------- filesystem
\* fs.entries maps each path to what is there; fs.ref_dirs is the set of
\* reference strings that name an existing directory.
NoDoc == DocOf({}, <<>>, NoSteps)

FileOf(doc) == [kind |-> "file", loads |-> TRUE, doc |-> doc]

\* a file that yaml.load cannot read or parse
BadFile == [kind |-> "file", loads |-> FALSE, doc |-> NoDoc]

DirEntry == [kind |-> "dir", loads |-> FALSE, doc |-> NoDoc]

\* nothing at this path
NoEntry == [kind |-> "none", loads |-> FALSE, doc |-> NoDoc]

Exists(f, path) == path \in DOMAIN f.entries /\ f.entries[path].kind # "none"

\* line 103: os.path.isfile(file_path)
IsFile(f, path) == path \in DOMAIN f.entries /\ f.entries[path].kind = "file"

\* line 108: os.path.isdir(uses_value)
IsDir(f, uses_value) == uses_value \in f.ref_dirs

\* (mutant: the test looks at the suffix, not at the directory)
InScopeAnyYml(path) == path[Len(path)] = ".yml"

\* line 99: ".github/workflows" in file_path or ".github/actions" in file_path
InScope(path) ==
    \/ ".github/workflows/" \in Range(path)
    \/ ".github/actions/" \in Range(path)

\* lines 91, 94: Path(dir).rglob("*.yml"), as a set: every entry below dir
\* whose name ends in .yml
RGlobYml(f, dir) ==
    {p \in DOMAIN f.entries :
        Exists(f, p) /\ p[1] = dir /\ p[Len(p)] = ".yml"}

\* the orders in which a directory walk can yield the set S
Orders(S) == {q \in [1..Cardinality(S) -> S] : Range(q) = S}

\* ----------------------------------------------------------- diagnostics
Line(kind, file, line, uses) ==
    [kind |-> kind, file |-> file, line |-> line, uses |-> uses]

Banner(kind) == Line(kind, <<>>, 0, <<>>)

\* (mutant: the allow list is consulted before the pin pattern)
DispositionAllowFirst(f, allow, uses_value) ==
    IF IsDir(f, uses_value) THEN "local"
    ELSE IF uses_value \in Range(allow) THEN "allowed"
    ELSE IF SHA_PATTERN_match(uses_value) THEN "pinned"
    ELSE "violation"

\* (mutant: the pin pattern is tried before the local-directory test)
DispositionPinFirst(f, allow, uses_value) ==
    IF SHA_PATTERN_match(uses_value) THEN "pinned"
    ELSE IF IsDir(f, uses_value) THEN "local"
    ELSE IF uses_value \in Range(allow) THEN "allowed"
    ELSE "violation"

\* lines 108-120: the if-chain applied to one reference
Disposition(f, allow, uses_value) ==
    IF IsDir(f, uses_value) THEN "local"
    ELSE IF SHA_PATTERN_match(uses_value) THEN "pinned"
    ELSE IF uses_value \in Range(allow) THEN "allowed"
    ELSE "violation"

\* lines 125-136: the value returned
ExitCode(failed, enforce) == IF failed /\ enforce THEN 1 ELSE 0

\* ------------------------------------------------------------ Spec: inputs
PWf  == <<".github/workflows/", "ci", ".yml">>
PAct == <<".github/actions/", "pin/", "action", ".yml">>
PSrc == <<"src/", "ci", ".yml">>
POld == <<".github/workflows/", "old", ".yml">>
PRel == <<".github/workflows/", "rel", ".yaml">>

ListedPaths == {PWf, PAct, PSrc, POld}

DocA == DocOf({"name", "jobs"},
              <<ContainerOf(<<StepRun, StepOf(RefTag, TRUE, 6),
                              StepOf(RefPinned, TRUE, 8)>>),
                ContainerOf(<<StepOf(RefBranch, TRUE, 13),
                              StepOf(RefLocal, TRUE, 15)>>)>>,
              NoSteps)

DocB == DocOf({"jobs"},
              <<NoSteps,
                ContainerOf(<<StepOf(RefTag, TRUE, 4), StepOf(RefEmpty, TRUE, 5),
                              StepOf(RefTag, TRUE, 7)>>)>>,
              NoSteps)

DocC == DocOf({"name", "runs"},
              <<>>,
              ContainerOf(<<StepOf(RefDirPin, TRUE, 5), StepOf(RefBranch, FALSE, 0),
                            StepOf(RefPinned, TRUE, 8)>>))

DocNoSchema == DocOf({"name", "steps"},
                     <<ContainerOf(<<StepOf(RefTag, TRUE, 2)>>)>>,
                     ContainerOf(<<StepOf(RefBranch, TRUE, 3)>>))

\* the paths of a list joined by single blanks
RECURSIVE Join(_)
Join(paths) ==
    IF paths = <<>> THEN <<>>
    ELSE IF Len(paths) = 1 THEN paths[1]
    ELSE paths[1] \o <<" ">> \o Join(Tail(paths))

AllChangedFilesValues ==
    {Unset, SetTo(<<" ", " ">>), SetTo(<<" ">> \o PWf \o <<" ", " ">> \o PAct)}
    \cup {SetTo(Join(q)) : q \in SeqsUpTo(ListedPaths, MaxListed)}

ChangedFilesValues == {Unset, SetTo(PWf)}

FailOnErrorValues == {Unset, SetTo(<<"T", "r", "u", "e">>), SetTo(<<"1">>),
                      SetTo(<<"f", "a", "l", "s", "e">>), SetTo(<<"Y", "E", "S">>)}

AllowUnpinnedValues ==
    {Unset, SetTo(RefTag),
     SetTo(RefBranch \o <<" ">> \o RefPinned \o <<" ", " ">> \o RefDirPin)}

Envs == {[ALL_CHANGED_FILES |-> a, CHANGED_FILES |-> c,
          FAIL_ON_ERROR |-> e, ALLOW_UNPINNED |-> u] :
            a \in AllChangedFilesValues, c \in ChangedFilesValues,
            e \in FailOnErrorValues, u \in AllowUnpinnedValues}

\* what may be at PWf and at PAct
WfEntries  == {NoEntry, DirEntry, BadFile, FileOf(DocA), FileOf(DocB),
               FileOf(DocNoSchema)}
ActEntries == {NoEntry, BadFile, FileOf(DocC)}

EntriesOf(w, a) ==
    [p \in {PWf, PAct, PSrc, PRel} |->
        IF p = PWf THEN w ELSE IF p = PAct THEN a ELSE FileOf(DocA)]

FileSystems ==
    {[entries |-> EntriesOf(w, a), ref_dirs |-> {RefLocal, RefDirPin}] :
        w \in WfEntries, a \in ActEntries}

\* ------------------------------------------------------------------ Spec
\* visited records what the loop of validate_workflow_files did with each
\* candidate (by its index in changed_files) and each reference (by its
\* index in the list get_uses_statements returned).
Event(ev, fidx, k, uses, line, disp) ==
    [ev |-> ev, fidx |-> fidx, k |-> k, uses |-> uses, line |-> line,
     disp |-> disp]

Init == /\ env \in Envs
        /\ fs \in FileSystems
        /\ pc = "main"
        /\ changed_files = <<>>
        /\ allow_unpinned = <<>>
        /\ fail_on_error = FALSE
        /\ file_idx = 0
        /\ uses_statements = <<>>
        /\ uses_idx = 0
        /\ fail = FALSE
        /\ output = <<>>
        /\ exit_code = -1
        /\ visited = <<>>
        /\ arg = <<>>
        /\ result = <<>>

\* lines 140-146: main() reads its three inputs
Main ==
    /\ pc = "main"
    /\ changed_files' = Split(EnvGet(env, ChangedFilesVar, <<>>))
    /\ allow_unpinned' = Split(EnvGet(env, "ALLOW_UNPINNED", <<>>))
    /\ fail_on_error' =
           FailOnErrorOf(EnvGet(env, "FAIL_ON_ERROR", <<"t", "r", "u", "e">>))
    /\ pc' = "validate"
    /\ UNCHANGED <<env, fs, file_idx, uses_statements, uses_idx, fail, output,
                   exit_code, visited, arg, result>>

\* lines 85-88: the start banner, a non-empty list is taken as it is
BeginListed ==
    /\ pc = "validate"
    /\ changed_files # <<>>
    /\ output' = Append(output, Banner("checking"))
    /\ fail' = FALSE
    /\ file_idx' = 1
    /\ pc' = "files"
    /\ UNCHANGED <<env, fs, changed_files, allow_unpinned, fail_on_error,
                   uses_statements, uses_idx, exit_code, visited, arg, result>>

\* lines 85-96: the start banner, an empty list is replaced by the *.yml
\* entries found below the two directories, workflows first
BeginDiscover ==
    /\ pc = "validate"
    /\ changed_files = <<>>
    /\ \E ws \in Orders(RGlobYml(fs, ".github/workflows/")),
          as \in Orders(RGlobYml(fs, ".github/actions/")) :
            changed_files' = ws \o as
    /\ output' = output \o <<Banner("checking"), Banner("files_to_look_at")>>
    /\ fail' = FALSE
    /\ file_idx' = 1
    /\ pc' = "files"
    /\ UNCHANGED <<env, fs, allow_unpinned, fail_on_error,
                   uses_statements, uses_idx, exit_code, visited, arg, result>>

AtFile == pc = "files" /\ file_idx <= Len(changed_files)

file_path == changed_files[file_idx]

\* lines 99-100: a path outside the two directories is passed over
SkipOutOfScope ==
    /\ AtFile
    /\ ~InScope(file_path)
    /\ visited' = Append(visited,
                         Event("skip", file_idx, 0, <<>>, 0, "out_of_scope"))
    /\ file_idx' = file_idx + 1
    /\ UNCHANGED <<env, fs, pc, changed_files, allow_unpinned, fail_on_error,
                   uses_statements, uses_idx, fail, output, exit_code,
                   arg, result>>

\* lines 103-104: a path that is not a file is passed over
SkipNotAFile ==
    /\ AtFile
    /\ InScope(file_path)
    /\ ~IsFile(fs, file_path)
    /\ visited' = Append(visited,
                         Event("skip", file_idx, 0, <<>>, 0, "not_a_file"))
    /\ file_idx' = file_idx + 1
    /\ UNCHANGED <<env, fs, pc, changed_files, allow_unpinned, fail_on_error,
                   uses_statements, uses_idx, fail, output, exit_code,
                   arg, result>>

\* line 106 with lines 38-68: get_uses_statements loads the file and returns
\* its list of (uses_value, line_num)
Extract ==
    /\ AtFile
    /\ InScope(file_path)
    /\ IsFile(fs, file_path)
    /\ fs.entries[file_path].loads
    /\ uses_statements' = UsesOf(fs.entries[file_path].doc)
    /\ uses_idx' = 1
    /\ visited' = Append(visited, Event("load", file_idx, 0, <<>>, 0, "ok"))
    /\ pc' = "uses"
    /\ UNCHANGED <<env, fs, changed_files, allow_unpinned, fail_on_error,
                   file_idx, fail, output, exit_code, arg, result>>

\* line 106 with lines 41-48: yaml.load raises, the handler prints the warning
\* and falls through; 'content' was never bound, so line 48 raises
\* UnboundLocalError, which nothing catches: main() never reaches sys.exit and
\* the interpreter prints the traceback and exits with status 1
ExtractRaises ==
    /\ AtFile
    /\ InScope(file_path)
    /\ IsFile(fs, file_path)
    /\ ~fs.entries[file_path].loads
    /\ output' = output \o <<Line("warning", file_path, 0, <<>>),
                             Banner("traceback")>>
    /\ visited' = Append(visited, Event("load", file_idx, 0, <<>>, 0, "raised"))
    /\ exit_code' = 1
    /\ pc' = "crashed"
    /\ UNCHANGED <<env, fs, changed_files, allow_unpinned, fail_on_error,
                   file_idx, uses_statements, uses_idx, fail, arg, result>>

AtUses == pc = "uses" /\ uses_idx <= Len(uses_statements)

uses_value == uses_statements[uses_idx][1]

line_num == uses_statements[uses_idx][2]

Classified(disp) ==
    /\ AtUses
    /\ Disposition(fs, allow_unpinned, uses_value) = disp
    /\ visited' = Append(visited, Event("uses", file_idx, uses_idx, uses_value,
                                        line_num, disp))
    /\ uses_idx' = uses_idx + 1
    /\ UNCHANGED <<env, fs, pc, changed_files, allow_unpinned, fail_on_error,
                   file_idx, uses_statements, exit_code, arg, result>>

\* lines 108-109: a local action
UsesLocal == Classified("local") /\ UNCHANGED <<fail, output>>

\* lines 111-112: a pinned reference
UsesPinned == Classified("pinned") /\ UNCHANGED <<fail, output>>

\* lines 114-118: an allowed unpinned reference
UsesAllowed ==
    /\ Classified("allowed")
    /\ output' = Append(output, Line("allowed", file_path, line_num, uses_value))
    /\ UNCHANGED fail

\* lines 120-123: a violation
UsesViolation ==
    /\ Classified("violation")
    /\ fail' = TRUE
    /\ output' = Append(output,
                        Line("violation", file_path, line_num, uses_value))

\* line 106: the list of the file is exhausted, on to the next file
EndOfFile ==
    /\ pc = "uses"
    /\ uses_idx > Len(uses_statements)
    /\ file_idx' = file_idx + 1
    /\ pc' = "files"
    /\ UNCHANGED <<env, fs, changed_files, allow_unpinned, fail_on_error,
                   uses_statements, uses_idx, fail, output, exit_code,
                   visited, arg, result>>

\* lines 125-132, 136 and 148: the failure banner, the hint and the exit code
FinishFailed ==
    /\ pc = "files"
    /\ file_idx > Len(changed_files)
    /\ fail
    /\ output' = output \o <<Banner("failed"), Banner("hint")>>
    /\ exit_code' = ExitCode(fail, fail_on_error)
    /\ pc' = "done"
    /\ UNCHANGED <<env, fs, changed_files, allow_unpinned, fail_on_error,
                   file_idx, uses_statements, uses_idx, fail, visited,
                   arg, result>>

\* lines 133-136 and 148: the success banner and exit code 0
FinishPassed ==
    /\ pc = "files"
    /\ file_idx > Len(changed_files)
    /\ ~fail
    /\ output' = Append(output, Banner("passed"))
    /\ exit_code' = ExitCode(fail, fail_on_error)
    /\ pc' = "done"
    /\ UNCHANGED <<env, fs, changed_files, allow_unpinned, fail_on_error,
                   file_idx, uses_statements, uses_idx, fail, visited,
                   arg, result>>

Next == \/ Main
        \/ BeginListed
        \/ BeginDiscover
        \/ SkipOutOfScope
        \/ SkipNotAFile
        \/ Extract
        \/ ExtractRaises
        \/ UsesLocal
        \/ UsesPinned
        \/ UsesAllowed
        \/ UsesViolation
        \/ EndOfFile
        \/ FinishFailed
        \/ FinishPassed

Spec == Init /\ [][Next]_vars

\* ================================================================ claims
\* ------------------------------------------------------- shared notation
Ended == pc \in {"done", "crashed"}

\* the events of the references classified so far
IsUsesEvent(ev) == ev.ev = "uses"

UsesEvents == SelectSeq(visited, IsUsesEvent)

IsDiagEvent(e) == e.ev = "uses" /\ e.disp \in {"allowed", "violation"}

IsDiagLine(l) == l.kind \in {"allowed", "violation"}

\* the per-reference lines printed so far, and the events that call for one
DiagLines == SelectSeq(output, IsDiagLine)

DiagEvents == SelectSeq(visited, IsDiagEvent)

\* every classified reference that is allowed or in violation has printed
\* exactly one line, of its kind, with its file, line and text, in order;
\* local and pinned references have printed nothing
OneLinePerDiagEvent ==
    /\ Len(DiagLines) = Len(DiagEvents)
    /\ \A i \in 1..Len(DiagEvents) :
          DiagLines[i] = Line(DiagEvents[i].disp,
                              changed_files[DiagEvents[i].fidx],
                              DiagEvents[i].line, DiagEvents[i].uses)

\* the failure flag is set exactly when a violation has been recorded
FailIffViolationSeen ==
    fail <=> \E i \in 1..Len(visited) :
                 visited[i].ev = "uses" /\ visited[i].disp = "violation"

\* s is a non-empty text without newline, then '@', then exactly ShaLen
\* lower-case hex characters, then at most one newline
PinShape(s) ==
    LET b == IF s # <<>> /\ s[Len(s)] = "\n" THEN SubSeq(s, 1, Len(s) - 1)
             ELSE s
        n == Len(b)
    IN  /\ n >= ShaLen + 2
        /\ b[n - ShaLen] = "@"
        /\ \A j \in (n - ShaLen + 1)..n : b[j] \in HexChars
        /\ \A j \in 1..(n - ShaLen - 1) : b[j] # "\n"

\* s ends in '@' followed by exactly ShaLen lower-case hex characters
EndsInAtSha(s) ==
    /\ Len(s) >= ShaLen + 1
    /\ s[Len(s) - ShaLen] = "@"
    /\ \A j \in (Len(s) - ShaLen + 1)..Len(s) : s[j] \in HexChars

\* the path lies below one of the two directories and is a file on disk
UnderWorkflowsOrActions(path) ==
    path[1] \in {".github/workflows/", ".github/actions/"}

OnDisk(path) ==
    \E p \in DOMAIN fs.entries : p = path /\ fs.entries[p].kind = "file"

\* C1: when the run has ended, the exit code is 1 if a violation was
\* recorded and fail_on_error is enabled, and 0 in every other case.
C1_ExitCodeIffEnforcedViolation ==
    Ended => /\ exit_code \in {0, 1}
             /\ exit_code = 1 <=> (fail /\ fail_on_error)

\* C2: a file whose load raised has printed a warning and contributed no
\* reference, and the run goes on: it does not abort, and when it has ended
\* it has printed a closing banner and the exit code is 0 or 1.
C2_LoadFailureRecovered ==
    \A i \in 1..Len(visited) :
        (visited[i].ev = "load" /\ visited[i].disp = "raised") =>
            /\ \E j \in 1..Len(output) :
                   /\ output[j].kind = "warning"
                   /\ output[j].file = changed_files[visited[i].fidx]
            /\ pc # "crashed"
            /\ Ended => /\ output[Len(output)].kind \in {"passed", "hint"}
                        /\ exit_code \in {0, 1}

\* C3: a classified reference is a violation exactly when it names no
\* existing directory, does not match the pin pattern and is not in the allow
\* list; a reference naming an existing directory is local; each violation
\* printed its line, local references printed none, and the failure flag is
\* set exactly when a violation was recorded.
C3_ViolationIffNoneOfTheAbove ==
    /\ \A i \in 1..Len(UsesEvents) :
          LET e == UsesEvents[i] IN
          /\ e.disp = "violation" <=>
                 /\ e.uses \notin fs.ref_dirs
                 /\ ~PinShape(e.uses)
                 /\ e.uses \notin Range(allow_unpinned)
          /\ e.uses \in fs.ref_dirs => e.disp = "local"
    /\ OneLinePerDiagEvent
    /\ FailIffViolationSeen

C3_Witness ==
    /\ fail
    /\ \E i \in 1..Len(visited) :
          visited[i].ev = "uses" /\ visited[i].disp = "violation"
    /\ \E i \in 1..Len(visited) :
          /\ visited[i].ev = "uses" /\ visited[i].disp = "local"
          /\ PinShape(visited[i].uses)
          /\ visited[i].uses \in Range(allow_unpinned)

\* C4: a classified reference that is in the allow list and is neither
\* pinned nor local is allowed: it printed exactly one 'allowed' line and no
\* violation line, and it did not set the failure flag; a reference in the
\* allow list that is pinned printed no line.
C4_AllowedPrintsOneLine ==
    /\ \A i \in 1..Len(UsesEvents) :
          LET e == UsesEvents[i] IN
          e.uses \in Range(allow_unpinned) /\ e.uses \notin fs.ref_dirs =>
              e.disp = IF PinShape(e.uses) THEN "pinned" ELSE "allowed"
    /\ Len(DiagLines) = Len(DiagEvents)
    /\ \A i \in 1..Len(DiagEvents) :
          DiagEvents[i].disp = "allowed" =>
              DiagLines[i] = Line("allowed", changed_files[DiagEvents[i].fidx],
                                  DiagEvents[i].line, DiagEvents[i].uses)
    /\ (\A i \in 1..Len(DiagEvents) : DiagEvents[i].disp = "allowed") => ~fail

C4_Witness ==
    /\ \E i \in 1..Len(visited) :
          visited[i].ev = "uses" /\ visited[i].disp = "allowed"
    /\ \E i \in 1..Len(visited) :
          /\ visited[i].ev = "uses" /\ visited[i].disp = "pinned"
          /\ visited[i].uses \in Range(allow_unpinned)
    /\ \E j \in 1..Len(output) : output[j].kind = "allowed"
    /\ ~fail
    /\ pc = "done"

\* C5 as stated: the pin test accepts s exactly when s ends in '@' followed
\* by exactly ShaLen lower-case hex characters.
C5_PinIffEndsInAtSha ==
    pc = "pin_done" => (result <=> EndsInAtSha(arg))

\* C5 as amended: the pin test accepts s exactly when s is a non-empty text
\* without newline, then '@', then exactly ShaLen lower-case hex characters,
\* then at most one newline.
C5_PinIffPinShape ==
    pc = "pin_done" => (result <=> PinShape(arg))

C5_Witness ==
    /\ pc = "pin_done"
    /\ result = TRUE
    /\ arg[1] = "@"
    /\ Len(arg) = ShaLen + 3

ListFixed == pc \in {"files", "uses", "done", "crashed"}

\* q lists the *.yml entries on disk below the two directories, each once,
\* those of the workflows directory first
IsDiscovery(q) ==
    LET found == {p \in DOMAIN fs.entries :
                     /\ fs.entries[p].kind \in {"file", "dir"}
                     /\ UnderWorkflowsOrActions(p)
                     /\ p[Len(p)] = ".yml"}
    IN  /\ Range(q) = found
        /\ Len(q) = Cardinality(found)
        /\ \A i, j \in 1..Len(q) :
               (q[i][1] = ".github/workflows/" /\ q[j][1] = ".github/actions/")
                   => i < j

\* the candidate list is the words of the variable name, or the discovery
\* when there is none
CandidatesFrom(name) ==
    LET value == IF env[name].set THEN env[name].val ELSE <<>>
        words == Split(value)
    IN  IF words # <<>> THEN changed_files = words
        ELSE IsDiscovery(changed_files)

\* C7 as stated: the candidate list is the list of paths in CHANGED_FILES,
\* or, when that holds no path, the *.yml files discovered below
\* .github/workflows/ and .github/actions/.
C7_CandidatesFromChangedFiles ==
    ListFixed => CandidatesFrom("CHANGED_FILES")

\* C7 as amended: the candidate list is the list of paths in
\* ALL_CHANGED_FILES, or, when that holds no path, the *.yml files discovered
\* below .github/workflows/ and .github/actions/.
C7_CandidatesFromAllChangedFiles ==
    ListFixed => /\ CandidatesFrom("ALL_CHANGED_FILES")
                 /\ \A i \in 1..Len(changed_files) :
                        " " \notin Range(changed_files[i])

C7_Witness ==
    /\ pc = "done"
    /\ env["ALL_CHANGED_FILES"].set
    /\ env["ALL_CHANGED_FILES"].val # <<>>
    /\ env["CHANGED_FILES"].set
    /\ Len(changed_files) = 2
    /\ changed_files[1] = changed_files[2]

\* the lines the batch calls for: for each candidate in list order that lies
\* below one of the two directories and is a file, one line for each of its
\* references that is allowed or in violation, in source order; a file that
\* does not load has no reference
LinesOfFile(path) ==
    LET refs == IF UnderWorkflowsOrActions(path) /\ OnDisk(path)
                   /\ fs.entries[path].loads
                THEN UsesOf(fs.entries[path].doc) ELSE <<>>
        lines == [i \in 1..Len(refs) |->
                     Line(Disposition(fs, allow_unpinned, refs[i][1]),
                          path, refs[i][2], refs[i][1])]
    IN  SelectSeq(lines, IsDiagLine)

RECURSIVE LinesOfBatch(_)
LinesOfBatch(k) ==
    IF k > Len(changed_files) THEN <<>>
    ELSE LinesOfFile(changed_files[k]) \o LinesOfBatch(k + 1)

\* C8: when the run has ended, every reference of every candidate file has
\* been classified: the per-reference lines are those of the whole batch,
\* grouped by file in list order and in source order within a file, and the
\* closing banner follows them.
C8_WholeBatchScannedInOrder ==
    Ended => /\ DiagLines = LinesOfBatch(1)
             /\ output[Len(output)].kind \in {"passed", "hint"}
             /\ \A i \in 1..(Len(output) - 1) :
                    IsDiagLine(output[i]) =>
                        output[i + 1].kind \in {"allowed", "violation", "failed"}

\* the steps get_uses_statements walks: those of 'runs' if the document has
\* that key, else those of every job in order
IsBearing(step) == step.has_uses /\ step.uses # <<>>

RECURSIVE StepsFrom(_, _)
StepsFrom(cs, k) ==
    IF k > Len(cs) THEN <<>>
    ELSE (IF cs[k].has_steps THEN cs[k].steps ELSE <<>>) \o StepsFrom(cs, k + 1)

ScannedSteps(doc) ==
    StepsFrom(IF "runs" \in doc.keys THEN <<doc.runs>> ELSE doc.jobs, 1)

\* C9: for a document with a 'runs' or 'jobs' key the list returned holds, in
\* source order, one pair for each step of the scanned containers whose
\* 'uses' is non-empty, and nothing else; the pair is the value and the
\* 1-based line of the key, or 0 when the line is unknown.
C9_OnePairPerBearingStep ==
    (pc = "ext_done" /\ arg.keys \cap {"jobs", "runs"} # {}) =>
        LET bearing == SelectSeq(ScannedSteps(arg), IsBearing) IN
        /\ Len(result) = Len(bearing)
        /\ \A i \in 1..Len(bearing) :
               /\ result[i][1] = bearing[i].uses
               /\ result[i][2] = IF bearing[i].lc_uses
                                 THEN bearing[i].lc_line + 1 ELSE 0

C9_Witness ==
    /\ pc = "ext_done"
    /\ arg.keys = {"jobs", "runs"}
    /\ arg.jobs # <<>> /\ arg.jobs[1].has_steps /\ arg.jobs[1].steps # <<>>
    /\ IsBearing(arg.jobs[1].steps[1])
    /\ Len(arg.runs.steps) = 2
    /\ ~arg.runs.steps[1].has_uses
    /\ Len(result) = 1
    /\ result[1][2] = 5

====
